---------------------------- MODULE Spec2Model ----------------------------
(*************************************************************************)
(* AssignmentHub: teams upload files under assignments; the instructor    *)
(* (admin, team 0) controls per-assignment open view and per-file         *)
(* visibility of the instructor's own files.                              *)
(*                                                                         *)
(* The model covers the record store (server/storage.ts, both backends),  *)
(* the passport strategies (server/passport-config.ts), the credential    *)
(* service (server/auth.ts) and the HTTP handlers (the routes module,     *)
(* unnamed/part_002).                                                      *)
(*                                                                         *)
(* Strings the code inspects character by character (labels, names,       *)
(* passwords) are sequences of one-character strings; strings the code    *)
(* only compares (assignment names, the "true"/"false" flags) are plain   *)
(* strings.  Timestamps (createdAt, lastLogin, uploadedAt, updatedAt) are  *)
(* not modelled; record sets carry the creation order in their ids.       *)
(*                                                                         *)
(* POST /api/register and POST /api/login are split at the points where   *)
(* the handler awaits the store or bcrypt, so that concurrent requests    *)
(* interleave there; the other handlers are single actions.               *)
(*************************************************************************)
EXTENDS Integers, Sequences, FiniteSets, TLC

-----------------------------------------------------------------------------
(* Bounds of the model *)

\* file ids / stored filenames ever handed out (randomUUID, multer filename)
MaxFiles == 2
\* user ids ever handed out (randomUUID)
MaxUsers == 3

-----------------------------------------------------------------------------
(* Program constants *)

AdminTeam == 0
MinTeamNumber == 1
MaxTeamNumber == 9
MinPasswordLength == 12
MinTeamNameLength == 3
MaxTeamNameLength == 50

-----------------------------------------------------------------------------
(* Character strings *)

LowerChars == {"a", "b", "c", "d", "e", "f", "p", "q", "r", "t", "x", "z"}
UpperChars == {"A", "B", "C", "D", "E", "F", "P", "Q", "R", "T", "X", "Z"}
DigitChars == {"0", "1", "2", "3", "4", "5", "6", "7", "8", "9"}
\* the symbols of the password rules, [@$!%*?&]
SpecialChars == {"@", "$", "!", "%", "*", "?", "&"}
SpaceChars == {" "}

\* String.prototype.toLowerCase on one character
ToLowerChar(c) ==
    CASE c = "A" -> "a" [] c = "B" -> "b" [] c = "C" -> "c" [] c = "D" -> "d"
      [] c = "E" -> "e" [] c = "F" -> "f" [] c = "P" -> "p" [] c = "Q" -> "q"
      [] c = "R" -> "r" [] c = "T" -> "t" [] c = "X" -> "x" [] c = "Z" -> "z"
      [] OTHER -> c

ToLower(s) == [i \in 1..Len(s) |-> ToLowerChar(s[i])]

\* String.prototype.includes
Includes(s, sub) ==
    \E i \in 0..(Len(s) - Len(sub)) : SubSeq(s, i + 1, i + Len(sub)) = sub

\* String.prototype.trim
RECURSIVE TrimLeft(_)
TrimLeft(s) ==
    IF s # <<>> /\ Head(s) \in SpaceChars THEN TrimLeft(Tail(s)) ELSE s

RECURSIVE TrimRight(_)
TrimRight(s) ==
    IF s # <<>> /\ s[Len(s)] \in SpaceChars
    THEN TrimRight(SubSeq(s, 1, Len(s) - 1))
    ELSE s

Trim(s) == TrimRight(TrimLeft(s))

\* a request field that is absent (undefined), and a stored null
Undefined == <<"undefined">>
Null == <<"null">>
IsString(s) == s # Undefined /\ s # Null
\* JavaScript truthiness of an optional string
Truthy(s) == IsString(s) /\ s # <<>>
\* an absent list of strings
UndefinedList == <<Undefined>>

-----------------------------------------------------------------------------
(* Environment (process.env) *)

\* ADMIN_PASSWORD
AdminPassword == <<"A", "d", "m", "1", "!">>
\* TEAM_1_PASSWORD and TEAM_2_PASSWORD are set; no other TEAM_n_PASSWORD is
LegacyTeams == {1, 2}
TeamPassword(n) ==
    CASE n = 1 -> <<"t", "m", "1">>
      [] n = 2 -> <<"t", "m", "2">>
      [] OTHER -> Undefined


-----------------------------------------------------------------------------
(* State *)

VARIABLES
    backend,     \* "mem" (MemStorage) or "db" (DBStorage), chosen once
    users,       \* the Team Accounts
    files,       \* the File Records
    settings,    \* the Assignment Visibility Settings: assignment -> flag
    blobs,       \* stored filenames present in the uploads directory
    sessions,    \* the session users of the authenticated sessions
    inflight,    \* register / login handlers suspended at an await
    resp,        \* the response of the handler that ran last
    nextUserId,  \* next fresh user id
    nextFileId,  \* next fresh file id / stored filename
    lastToggle   \* history: what the last completed PUT /api/assignment-settings
                 \* of each assignment asked for

vars == <<backend, users, files, settings, blobs, sessions, inflight, resp,
          nextUserId, nextFileId, lastToggle>>

-----------------------------------------------------------------------------
(* Requesters *)

\* req.user of a request without an authenticated session
Anonymous == [auth |-> FALSE, teamNumber |-> -1, isAdmin |-> FALSE]
\* the user object the admin-login strategy hands to the session
AdminUser == [auth |-> TRUE, teamNumber |-> AdminTeam, isAdmin |-> TRUE]
\* the user object the team-login strategy hands to the session
TeamUser(n) == [auth |-> TRUE, teamNumber |-> n, isAdmin |-> FALSE]

\* who may send a request: any open session, or a client without one
Requesters == sessions \cup {Anonymous}

\* requireAuth
requireAuth(r) == r.auth
\* requireAdmin
requireAdmin(r) == r.auth /\ r.isAdmin

-----------------------------------------------------------------------------
(* Credential service *)

\* bcrypt.hash: the digest is not the plaintext, and verifies only it
hashPassword(password) == [alg |-> "bcrypt", plain |-> password]
NoHash == [alg |-> "none", plain |-> Null]
\* bcrypt.compare
verifyPassword(password, hash) == hash.alg = "bcrypt" /\ hash.plain = password

HasChar(s, set) == \E i \in 1..Len(s) : s[i] \in set

\* AuthService.validatePassword: the set of violated rules
validatePassword(password) ==
    (IF Len(password) < MinPasswordLength THEN {"length"} ELSE {})
    \cup (IF ~HasChar(password, LowerChars) THEN {"lowercase"} ELSE {})
    \cup (IF ~HasChar(password, UpperChars) THEN {"uppercase"} ELSE {})
    \cup (IF ~HasChar(password, DigitChars) THEN {"digit"} ELSE {})
    \cup (IF ~HasChar(password, SpecialChars) THEN {"special"} ELSE {})

TeamNameChars == LowerChars \cup UpperChars \cup DigitChars \cup SpaceChars \cup {"-", "_"}

\* AuthService.validateTeamName: the set of violated rules
validateTeamName(teamName) ==
    (IF Len(Trim(teamName)) = 0 THEN {"required"} ELSE {})
    \cup (IF Len(teamName) < MinTeamNameLength THEN {"short"} ELSE {})
    \cup (IF Len(teamName) > MaxTeamNameLength THEN {"long"} ELSE {})
    \cup (IF \E i \in 1..Len(teamName) : teamName[i] \notin TeamNameChars
             \/ teamName = <<>>
          THEN {"charset"} ELSE {})

\* registerUserSchema.safeParse
registerUserSchemaOk(teamNumber, teamName, password) ==
    /\ teamNumber >= MinTeamNumber
    /\ teamNumber <= MaxTeamNumber
    /\ teamName # Null
    /\ IsString(password)
    /\ Len(password) >= MinPasswordLength
    /\ HasChar(password, LowerChars)
    /\ HasChar(password, UpperChars)
    /\ HasChar(password, DigitChars)
    /\ HasChar(password, SpecialChars)
    /\ password[1] \in LowerChars \cup UpperChars \cup DigitChars \cup SpecialChars

-----------------------------------------------------------------------------
(* Record store: Team Accounts *)

NoUser == [id |-> 0, teamNumber |-> -1, teamName |-> Null,
           passwordHash |-> NoHash, isAdmin |-> "false", isActive |-> "true"]

\* the first element of a collection in insertion (id) order
FirstById(S, none) ==
    IF S = {} THEN none ELSE CHOOSE x \in S : \A y \in S : x.id <= y.id

\* getUserByTeam: Array.find / select ... limit 1
getUserByTeam(us, teamNumber) ==
    FirstById({u \in us : u.teamNumber = teamNumber}, NoUser)

\* the users table has a unique team_number column; the Map has no such check
UniqueViolation(us, teamNumber) ==
    backend = "db" /\ \E u \in us : u.teamNumber = teamNumber

\* createUser (when it does not throw)
createUser(us, id, teamNumber, teamName, passwordHash) ==
    us \cup {[id |-> id, teamNumber |-> teamNumber,
              teamName |-> IF Truthy(teamName) THEN teamName ELSE Null,
              passwordHash |-> passwordHash,
              isAdmin |-> "false", isActive |-> "true"]}

\* updateUserPassword
updateUserPassword(us, teamNumber, passwordHash) ==
    IF backend = "mem"
    THEN LET user == getUserByTeam(us, teamNumber) IN
         IF user = NoUser THEN us
         ELSE (us \ {user}) \cup {[user EXCEPT !.passwordHash = passwordHash]}
    ELSE {IF u.teamNumber = teamNumber
          THEN [u EXCEPT !.passwordHash = passwordHash] ELSE u : u \in us}

\* MemStorage.checkTeamNameAvailable (no excludeTeamNumber is ever passed)
Mem_checkTeamNameAvailable(us, teamName) ==
    ~\E u \in us : u.teamName # Null /\ ToLower(u.teamName) = ToLower(teamName)

\* DBStorage.checkTeamNameAvailable
DB_checkTeamNameAvailable(us, teamName) ==
    ~\E u \in us : u.teamName = teamName

checkTeamNameAvailable(us, teamName) ==
    IF backend = "mem" THEN Mem_checkTeamNameAvailable(us, teamName)
    ELSE DB_checkTeamNameAvailable(us, teamName)

\* deleteUser
deleteUser(us, teamNumber) ==
    IF backend = "mem"
    THEN us \ {getUserByTeam(us, teamNumber)}
    ELSE {u \in us : u.teamNumber # teamNumber}

-----------------------------------------------------------------------------
(* Record store: File Records *)

NoFile == [id |-> 0, label |-> Null, originalName |-> Null, fileName |-> 0,
           fileType |-> Null, fileSize |-> 0, teamNumber |-> -1,
           assignment |-> "", tags |-> <<>>, description |-> Null,
           isVisible |-> "false"]

\* createFile
createFile(fs, id, fileData) ==
    fs \cup {[id |-> id, label |-> fileData.label,
              originalName |-> fileData.originalName,
              fileName |-> fileData.fileName, fileType |-> fileData.fileType,
              fileSize |-> fileData.fileSize, teamNumber |-> fileData.teamNumber,
              assignment |-> fileData.assignment, tags |-> fileData.tags,
              description |-> fileData.description,
              isVisible |-> fileData.isVisible]}

\* getAllFiles
getAllFiles(fs) == fs

\* getFileById
getFileById(fs, id) == FirstById({f \in fs : f.id = id}, NoFile)

\* getFilesByTeam
getFilesByTeam(fs, teamNumber) == {f \in fs : f.teamNumber = teamNumber}

\* MemStorage.getFilesByType
Mem_getFilesByType(fs, fileType) ==
    {f \in fs : Includes(ToLower(f.fileType), ToLower(fileType))}

\* DBStorage.getFilesByType
DB_getFilesByType(fs, fileType) == {f \in fs : f.fileType = fileType}

getFilesByType(fs, fileType) ==
    IF backend = "mem" THEN Mem_getFilesByType(fs, fileType)
    ELSE DB_getFilesByType(fs, fileType)

\* getFilesByAssignment
getFilesByAssignment(fs, assignment) == {f \in fs : f.assignment = assignment}

\* MemStorage.searchFiles
Mem_searchFiles(fs, query) ==
    LET lowerQuery == ToLower(query) IN
    {f \in fs :
        \/ Includes(ToLower(f.label), lowerQuery)
        \/ Includes(ToLower(f.originalName), lowerQuery)
        \/ \E i \in 1..Len(f.tags) : Includes(ToLower(f.tags[i]), lowerQuery)
        \/ (Truthy(f.description) /\ Includes(ToLower(f.description), lowerQuery))}

\* DBStorage.searchFiles: label, original_name or description LIKE %query%
DB_searchFiles(fs, query) ==
    {f \in fs :
        \/ Includes(f.label, query)
        \/ Includes(f.originalName, query)
        \/ (f.description # Null /\ Includes(f.description, query))}

searchFiles(fs, query) ==
    IF backend = "mem" THEN Mem_searchFiles(fs, query)
    ELSE DB_searchFiles(fs, query)

\* deleteFile
deleteFile(fs, id) == {f \in fs : f.id # id}

\* mutant: the flag is flipped instead of set
updateFileVisibility_Toggle(fs, id, isVisible) ==
    {IF f.id = id
     THEN [f EXCEPT !.isVisible = IF @ = "true" THEN "false" ELSE "true"]
     ELSE f : f \in fs}

\* updateFileVisibility
updateFileVisibility(fs, id, isVisible) ==
    {IF f.id = id THEN [f EXCEPT !.isVisible = isVisible] ELSE f : f \in fs}

\* mutant: the three fields are assigned whether or not they are provided
updateFileDetails_AssignAll(fs, id, label, description, tags) ==
    {IF f.id = id
     THEN [f EXCEPT !.label = label, !.description = description, !.tags = tags]
     ELSE f : f \in fs}

\* updateFileDetails: label and tags by truthiness, description when defined
updateFileDetails(fs, id, label, description, tags) ==
    {IF f.id = id
     THEN [f EXCEPT !.label = IF Truthy(label) THEN label ELSE @,
                    !.description = IF description # Undefined THEN description ELSE @,
                    !.tags = IF tags # UndefinedList THEN tags ELSE @]
     ELSE f : f \in fs}

-----------------------------------------------------------------------------
(* Record store: Assignment Visibility Settings *)

\* the seeded assignment names (two of the nine)
DefaultAssignments == {"A1", "A2"}

\* getAssignmentSettings
getAssignmentSettings(st) == {[assignment |-> a, isOpenView |-> st[a]] : a \in DOMAIN st}

NoSetting == [assignment |-> "", isOpenView |-> "false"]

\* getAssignmentSetting
getAssignmentSetting(st, assignment) ==
    IF assignment \in DOMAIN st
    THEN [assignment |-> assignment, isOpenView |-> st[assignment]]
    ELSE NoSetting

\* Boolean.prototype.toString
BoolToString(b) == IF b THEN "true" ELSE "false"

\* mutant: a missing row is not created
updateAssignmentSetting_UpdateOnly(st, assignment, isOpenView) ==
    [a \in DOMAIN st |-> IF a = assignment THEN BoolToString(isOpenView) ELSE st[a]]

\* mutant: an existing row is left as it is
updateAssignmentSetting_InsertOnly(st, assignment, isOpenView) ==
    [a \in DOMAIN st \cup {assignment} |->
        IF a \in DOMAIN st THEN st[a] ELSE BoolToString(isOpenView)]

\* updateAssignmentSetting: insert the row or update it in place
updateAssignmentSetting(st, assignment, isOpenView) ==
    [a \in DOMAIN st \cup {assignment} |->
        IF a = assignment THEN BoolToString(isOpenView) ELSE st[a]]


-----------------------------------------------------------------------------
(* Requests in flight and responses *)

Slots == {1, 2}

Idle == [kind |-> "idle", pc |-> "", teamNumber |-> 0, teamName |-> Undefined,
         password |-> Undefined, found |-> FALSE, hash |-> NoHash,
         todo |-> {}, snapshot |-> {}]

\* no handler is suspended: the next handler runs from its start
Quiescent == \A s \in Slots : inflight[s] = Idle

\* suspended handlers that may still call createUser
Creators == {s \in Slots : inflight[s] # Idle /\ ~inflight[s].found}

\* a fresh user id stays available for every handler that may need one
UserIdFree == nextUserId + Cardinality(Creators) <= MaxUsers

NoQuery == [kind |-> "none", team |-> 0, text |-> <<>>, assignment |-> ""]

\* the body fields of an upload or an edit request, as the response echoes them
NoInput == [label |-> Undefined, assignment |-> "undefined", tags |-> Undefined,
            description |-> Undefined, tagList |-> UndefinedList, names |-> <<>>,
            teamNumber |-> -1]

Resp(op, by, status) ==
    [op |-> op, by |-> by, status |-> status, target |-> 0, query |-> NoQuery,
     secret |-> Undefined, body |-> {}, count |-> 0, message |-> "",
     input |-> NoInput]

\* a handler step that sends no response yet
NoResp == Resp("", Anonymous, 0)

FilesUnchanged == UNCHANGED <<files, blobs, nextFileId>>
UsersUnchanged == UNCHANGED <<users, nextUserId>>

-----------------------------------------------------------------------------
(* POST /api/admin-login, POST /api/logout *)

\* mutant: any password opens the admin session
AdminLoginOk_AnyPassword(password) == IsString(AdminPassword)

\* admin-login strategy
AdminLoginOk(password) == IsString(AdminPassword) /\ password = AdminPassword

AdminLogin(password) ==
    /\ IF AdminLoginOk(password)
       THEN /\ sessions' = sessions \cup {AdminUser}
            /\ resp' = [Resp("admin-login", AdminUser, 200) EXCEPT
                           !.secret = password]
       ELSE /\ sessions' = sessions
            /\ resp' = [Resp("admin-login", Anonymous, 401) EXCEPT
                           !.secret = password]
    /\ UNCHANGED <<backend, users, files, settings, blobs, inflight,
                   nextUserId, nextFileId, lastToggle>>

Logout(r) ==
    /\ r \in sessions
    /\ sessions' = sessions \ {r}
    /\ resp' = Resp("logout", r, 200)
    /\ UNCHANGED <<backend, users, files, settings, blobs, inflight,
                   nextUserId, nextFileId, lastToggle>>

-----------------------------------------------------------------------------
(* POST /api/login: the team-login strategy *)

\* mutant: the digest branch is never taken
DatabaseAuth_Never(user) == FALSE

\* "Try database authentication first": the account has a digest
DatabaseAuth(user) == user # NoUser /\ user.passwordHash # NoHash

\* mutant: the secret is read under the next team's key
EnvFallbackOk_NextKey(teamNum, password) ==
    Truthy(TeamPassword(teamNum + 1)) /\ password = TeamPassword(teamNum + 1)

\* "Fallback to environment variable authentication"
EnvFallbackOk(teamNum, password) ==
    Truthy(TeamPassword(teamNum)) /\ password = TeamPassword(teamNum)

\* the answer of POST /api/login
LoginResp(by, status, teamNumber, password) ==
    [Resp("login", by, status) EXCEPT !.target = teamNumber, !.secret = password]

\* up to the first await: parse the team number, look the account up
LoginStart(s, teamNumber, password) ==
    /\ inflight[s] = Idle
    /\ UserIdFree
    /\ IF teamNumber < MinTeamNumber \/ teamNumber > MaxTeamNumber
       THEN /\ inflight' = inflight
            /\ resp' = LoginResp(Anonymous, 401, teamNumber, password)
       ELSE LET user == getUserByTeam(users, teamNumber) IN
            IF DatabaseAuth(user)
            THEN \* database authentication: await verifyPassword
                 /\ inflight' = [inflight EXCEPT ![s] =
                        [Idle EXCEPT !.kind = "login", !.pc = "verify",
                                     !.teamNumber = teamNumber,
                                     !.password = password, !.found = TRUE,
                                     !.hash = user.passwordHash]]
                 /\ resp' = NoResp
            ELSE IF EnvFallbackOk(teamNumber, password)
            THEN \* environment fallback: await createUser / updateUserLogin
                 /\ inflight' = [inflight EXCEPT ![s] =
                        [Idle EXCEPT !.kind = "login", !.pc = "create",
                                     !.teamNumber = teamNumber,
                                     !.password = password,
                                     !.found = (user # NoUser)]]
                 /\ resp' = NoResp
            ELSE /\ inflight' = inflight
                 /\ resp' = LoginResp(Anonymous, 401, teamNumber, password)
    /\ UNCHANGED <<backend, users, files, settings, blobs, sessions,
                   nextUserId, nextFileId, lastToggle>>

\* after the await: the password verdict, or the lazily created account
LoginFinish(s) ==
    /\ inflight[s].kind = "login"
    /\ LET q == inflight[s]
           n == q.teamNumber IN
       IF q.pc = "verify"
       THEN /\ IF verifyPassword(q.password, q.hash)
               THEN /\ sessions' = sessions \cup {TeamUser(n)}
                    /\ resp' = LoginResp(TeamUser(n), 200, n, q.password)
               ELSE /\ sessions' = sessions
                    /\ resp' = LoginResp(Anonymous, 401, n, q.password)
            /\ UsersUnchanged
       ELSE IF q.found
       THEN /\ sessions' = sessions \cup {TeamUser(n)}
            /\ resp' = LoginResp(TeamUser(n), 200, n, q.password)
            /\ UsersUnchanged
       ELSE IF UniqueViolation(users, n)
       THEN \* the insert throws: done(error)
            /\ sessions' = sessions
            /\ resp' = LoginResp(Anonymous, 500, n, q.password)
            /\ UsersUnchanged
       ELSE /\ users' = createUser(users, nextUserId, n, Undefined, NoHash)
            /\ nextUserId' = nextUserId + 1
            /\ sessions' = sessions \cup {TeamUser(n)}
            /\ resp' = LoginResp(TeamUser(n), 200, n, q.password)
    /\ inflight' = [inflight EXCEPT ![s] = Idle]
    /\ UNCHANGED <<backend, files, settings, blobs, nextFileId, lastToggle>>

-----------------------------------------------------------------------------
(* POST /api/register *)

RegResp(status, q) ==
    [Resp("register", Anonymous, status) EXCEPT
        !.target = q.teamNumber, !.secret = q.password,
        !.query = [NoQuery EXCEPT !.text = q.teamName]]

\* mutant: any account of the team blocks the registration
AlreadyRegistered_AnyAccount(existingUser) == existingUser # NoUser

\* "Team number already registered"
AlreadyRegistered(existingUser) ==
    existingUser # NoUser /\ existingUser.passwordHash # NoHash

\* up to the first await and its answer: schema, then getUserByTeam
RegisterStart(s, teamNumber, teamName, password) ==
    /\ inflight[s] = Idle
    /\ UserIdFree
    /\ LET q == [Idle EXCEPT !.kind = "register", !.pc = "name",
                             !.teamNumber = teamNumber, !.teamName = teamName,
                             !.password = password]
           existingUser == getUserByTeam(users, teamNumber) IN
       IF ~registerUserSchemaOk(teamNumber, teamName, password)
       THEN /\ inflight' = inflight
            /\ resp' = RegResp(400, q)
       ELSE IF AlreadyRegistered(existingUser)
       THEN /\ inflight' = inflight
            /\ resp' = RegResp(409, q)
       ELSE /\ inflight' = [inflight EXCEPT ![s] =
                                [q EXCEPT !.found = (existingUser # NoUser)]]
            /\ resp' = NoResp
    /\ UNCHANGED <<backend, users, files, settings, blobs, sessions,
                   nextUserId, nextFileId, lastToggle>>

\* checkTeamNameAvailable, then the password and team-name rules, then the
\* call of hashPassword
RegisterCheckName(s) ==
    /\ inflight[s].kind = "register"
    /\ inflight[s].pc = "name"
    /\ LET q == inflight[s]
           named == Truthy(q.teamName) /\ Truthy(Trim(q.teamName)) IN
       IF named /\ ~checkTeamNameAvailable(users, q.teamName)
       THEN /\ inflight' = [inflight EXCEPT ![s] = Idle]
            /\ resp' = RegResp(409, q)
       ELSE IF validatePassword(q.password) # {}
               \/ (named /\ validateTeamName(q.teamName) # {})
       THEN /\ inflight' = [inflight EXCEPT ![s] = Idle]
            /\ resp' = RegResp(400, q)
       ELSE /\ inflight' = [inflight EXCEPT ![s] = [q EXCEPT !.pc = "hash"]]
            /\ resp' = NoResp
    /\ UNCHANGED <<backend, users, files, settings, blobs, sessions,
                   nextUserId, nextFileId, lastToggle>>

\* the digest is ready: update the legacy account or create the account
RegisterFinish(s) ==
    /\ inflight[s].kind = "register"
    /\ inflight[s].pc = "hash"
    /\ LET q == inflight[s]
           passwordHash == hashPassword(q.password) IN
       IF q.found
       THEN /\ users' = updateUserPassword(users, q.teamNumber, passwordHash)
            /\ nextUserId' = nextUserId
            /\ resp' = RegResp(201, q)
       ELSE IF UniqueViolation(users, q.teamNumber)
       THEN \* the insert throws: caught, 500
            /\ UsersUnchanged
            /\ resp' = RegResp(500, q)
       ELSE /\ users' = createUser(users, nextUserId, q.teamNumber,
                                   IF Truthy(q.teamName) THEN Trim(q.teamName)
                                   ELSE Null,
                                   passwordHash)
            /\ nextUserId' = nextUserId + 1
            /\ resp' = RegResp(201, q)
    /\ inflight' = [inflight EXCEPT ![s] = Idle]
    /\ UNCHANGED <<backend, files, settings, blobs, sessions, nextFileId, lastToggle>>


-----------------------------------------------------------------------------
(* PUT /api/user/password *)

\* the current password is checked against the digest, or against the
\* environment secret of the team when the account has no digest
CurrentPasswordValid(dbUser, teamNumber, currentPassword) ==
    IF dbUser.passwordHash # NoHash
    THEN verifyPassword(currentPassword, dbUser.passwordHash)
    ELSE currentPassword = TeamPassword(teamNumber)

\* the handler replaces the digest; it does not touch the session store
ChangePassword(r, currentPassword, newPassword) ==
    /\ r \in Requesters
    /\ LET dbUser == getUserByTeam(users, r.teamNumber)
           out(status) == [Resp("password", r, status) EXCEPT
                              !.target = r.teamNumber, !.secret = newPassword] IN
       IF ~requireAuth(r)
       THEN users' = users /\ resp' = out(401)
       ELSE IF ~Truthy(currentPassword) \/ ~Truthy(newPassword)
       THEN users' = users /\ resp' = out(400)
       ELSE IF dbUser = NoUser
       THEN users' = users /\ resp' = out(404)
       ELSE IF ~CurrentPasswordValid(dbUser, r.teamNumber, currentPassword)
       THEN users' = users /\ resp' = out(401)
       ELSE IF validatePassword(newPassword) # {}
       THEN users' = users /\ resp' = out(400)
       ELSE /\ users' = updateUserPassword(users, r.teamNumber,
                                           hashPassword(newPassword))
            /\ resp' = out(200)
    /\ UNCHANGED <<backend, files, settings, blobs, sessions, inflight,
                   nextUserId, nextFileId, lastToggle>>

-----------------------------------------------------------------------------
(* Permission rules of the file handlers *)

\* mutant: an instructor file also shows when its assignment is open
ListFilter_TeamZeroFollowsAssignment(fs, user, st) ==
    {file \in fs :
        IF file.teamNumber = AdminTeam
        THEN file.isVisible = "true"
             \/ (file.assignment \in DOMAIN st /\ st[file.assignment] = "true")
        ELSE file.teamNumber = user.teamNumber
             \/ (file.assignment \in DOMAIN st /\ st[file.assignment] = "true")}

\* GET /api/files: the filter applied for a non-admin requester
ListFilter(fs, user, st) ==
    LET openAssignments ==
            {x.assignment : x \in {y \in getAssignmentSettings(st) :
                                       y.isOpenView = "true"}} IN
    {file \in fs :
        LET isOwnFile == file.teamNumber = user.teamNumber IN
        IF file.teamNumber = AdminTeam
        THEN file.isVisible = "true"
        ELSE isOwnFile \/ file.assignment \in openAssignments}

\* mutant: the filter is applied to the admin too
ListVisible_FilterAdmin(fs, user, st) == ListFilter(fs, user, st)

\* mutant: a team's own files are filtered like the other teams' files
ListVisible_NoOwnFiles(fs, user, st) ==
    IF ~user.isAdmin
    THEN ListFilter(fs, [user EXCEPT !.teamNumber = -1], st)
    ELSE fs

\* GET /api/files: no filter for an admin
ListVisible(fs, user, st) ==
    IF ~user.isAdmin THEN ListFilter(fs, user, st) ELSE fs

\* GET /api/files/:id/download: "Access denied"
DownloadDenied(file, user, st) ==
    /\ ~user.isAdmin
    /\ LET assignmentSetting == getAssignmentSetting(st, file.assignment)
           isOpenView == assignmentSetting # NoSetting
                         /\ assignmentSetting.isOpenView = "true" IN
       /\ file.teamNumber # user.teamNumber
       /\ ~isOpenView
       /\ ~(file.teamNumber = AdminTeam /\ file.isVisible = "true")

\* mutant: an admin may modify any file
EditDenied_AdminEditsAll(file, user) ==
    file.teamNumber # user.teamNumber /\ ~user.isAdmin

\* PUT /api/files/:id: "Can only modify your own files"
EditDenied(file, user) ==
    file.teamNumber # user.teamNumber
    /\ ~(user.isAdmin /\ file.teamNumber = AdminTeam)

\* the step-up credential of the destructive handlers
AdminSecretOk(adminPassword) == adminPassword = AdminPassword

-----------------------------------------------------------------------------
(* GET /api/files, GET /api/files/:id/download *)

\* the store query the request selects
QueryFiles(fs, q) ==
    CASE q.kind = "search" -> searchFiles(fs, q.text)
      [] q.kind = "team" -> getFilesByTeam(fs, q.team)
      [] q.kind = "type" -> getFilesByType(fs, q.text)
      [] q.kind = "assignment" -> getFilesByAssignment(fs, q.assignment)
      [] OTHER -> getAllFiles(fs)

Ids(fs) == {f.id : f \in fs}

ListFiles(r, q) ==
    /\ r \in Requesters
    /\ IF ~requireAuth(r)
       THEN resp' = Resp("list", r, 401)
       ELSE resp' = [Resp("list", r, 200) EXCEPT
                        !.query = q,
                        !.body = Ids(ListVisible(QueryFiles(files, q), r, settings))]
    /\ UNCHANGED <<backend, users, files, settings, blobs, sessions, inflight,
                   nextUserId, nextFileId, lastToggle>>

Download(r, id) ==
    /\ r \in Requesters
    /\ LET file == getFileById(files, id)
           out(status, message) ==
               [Resp("download", r, status) EXCEPT !.target = id,
                                                   !.message = message] IN
       resp' = IF ~requireAuth(r) THEN out(401, "Authentication required")
               ELSE IF file = NoFile THEN out(404, "File not found")
               ELSE IF DownloadDenied(file, r, settings) THEN out(403, "Access denied")
               ELSE IF file.fileName \notin blobs THEN out(404, "File not found on disk")
               ELSE out(200, "")
    /\ UNCHANGED <<backend, users, files, settings, blobs, sessions, inflight,
                   nextUserId, nextFileId, lastToggle>>

-----------------------------------------------------------------------------
(* PUT /api/assignment-settings, PUT /api/files/:id/visibility,
   PUT /api/files/:id *)

\* isOpenView arrives as JSON: a boolean or something else
PutAssignmentSetting(r, assignment, isBoolean, isOpenView) ==
    /\ r \in Requesters
    /\ LET out(status) == [Resp("setting", r, status) EXCEPT
                              !.query = [NoQuery EXCEPT !.assignment = assignment],
                              !.message = BoolToString(isOpenView)] IN
       IF ~requireAdmin(r)
       THEN /\ UNCHANGED <<settings, lastToggle>>
            /\ resp' = Resp("setting", r, 403)
       ELSE IF assignment = "" \/ ~isBoolean
       THEN /\ UNCHANGED <<settings, lastToggle>>
            /\ resp' = Resp("setting", r, 400)
       ELSE /\ settings' = updateAssignmentSetting(settings, assignment, isOpenView)
            /\ lastToggle' = [a \in DOMAIN lastToggle \cup {assignment} |->
                                 IF a = assignment THEN isOpenView ELSE lastToggle[a]]
            /\ resp' = out(200)
    /\ UNCHANGED <<backend, users, files, blobs, sessions, inflight,
                   nextUserId, nextFileId>>

PutVisibility(r, id, isVisible) ==
    /\ r \in Requesters
    /\ LET file == getFileById(files, id)
           out(status) == [Resp("visibility", r, status) EXCEPT
                              !.target = id, !.message = isVisible] IN
       IF ~requireAuth(r) THEN files' = files /\ resp' = Resp("visibility", r, 401)
       ELSE IF ~r.isAdmin THEN files' = files /\ resp' = Resp("visibility", r, 403)
       ELSE IF file = NoFile THEN files' = files /\ resp' = Resp("visibility", r, 404)
       ELSE IF file.teamNumber # AdminTeam
       THEN files' = files /\ resp' = [Resp("visibility", r, 403) EXCEPT !.target = id]
       ELSE /\ files' = updateFileVisibility(files, id, isVisible)
            /\ resp' = out(200)
    /\ UNCHANGED <<backend, users, settings, blobs, sessions, inflight,
                   nextUserId, nextFileId, lastToggle>>

PutFile(r, id, label, description, tags) ==
    /\ r \in Requesters
    /\ LET file == getFileById(files, id)
           out(status) == [Resp("edit", r, status) EXCEPT
                              !.target = id,
                              !.input = [NoInput EXCEPT !.label = label,
                                                        !.description = description,
                                                        !.tagList = tags]] IN
       IF ~requireAuth(r) THEN files' = files /\ resp' = out(401)
       ELSE IF file = NoFile THEN files' = files /\ resp' = out(404)
       ELSE IF EditDenied(file, r) THEN files' = files /\ resp' = out(403)
       ELSE /\ files' = updateFileDetails(files, id, label, description, tags)
            /\ resp' = out(200)
    /\ UNCHANGED <<backend, users, settings, blobs, sessions, inflight,
                   nextUserId, nextFileId, lastToggle>>


-----------------------------------------------------------------------------
(* POST /api/files/upload *)

MaxUploadFiles == 10

\* the multer fileFilter's allow-list
AllowedTypes == {<<".", "j", "p", "g">>, <<".", "j", "p", "e", "g">>,
                 <<".", "p", "n", "g">>, <<".", "p", "d", "f">>,
                 <<".", "d", "o", "c", "x">>, <<".", "p", "p", "t", "x">>}

\* path.extname: from the last dot, unless there is none or it leads the name
ExtName(name) ==
    LET dots == {i \in 1..Len(name) : name[i] = "."} IN
    IF dots = {} THEN <<>>
    ELSE LET last == CHOOSE i \in dots : \A j \in dots : j <= i IN
         IF last = 1 THEN <<>> ELSE SubSeq(name, last, Len(name))

fileFilter(originalname) == ToLower(ExtName(originalname)) \in AllowedTypes

\* String.prototype.split(',')
RECURSIVE SplitComma(_)
SplitComma(s) ==
    LET commas == {i \in 1..Len(s) : s[i] = ","} IN
    IF commas = {} THEN <<s>>
    ELSE LET first == CHOOSE i \in commas : \A j \in commas : i <= j IN
         <<SubSeq(s, 1, first - 1)>> \o SplitComma(SubSeq(s, first + 1, Len(s)))

\* tags.split(',').map(tag => tag.trim()), or [] without a tags field
ParseTags(tags) ==
    IF Truthy(tags)
    THEN LET parts == SplitComma(tags) IN [i \in 1..Len(parts) |-> Trim(parts[i])]
    ELSE <<>>

\* a request field that is a plain string and is absent
Absent == "undefined"

\* insertFileSchema.safeParse: label and assignment are required texts
insertFileSchemaOk(fileData) ==
    IsString(fileData.label) /\ fileData.assignment # Absent

\* a request body without a teamNumber field
NoTeamField == -1

\* mutant: a teamNumber field of the request body names the owner
UploadTeam_BodyOverrides(user, teamNumber) ==
    IF teamNumber # NoTeamField THEN teamNumber
    ELSE IF user.isAdmin THEN AdminTeam ELSE user.teamNumber

\* "Admin users get assigned to Team 0, others use their actual team number":
\* the owner comes from the session user; the body is not consulted
UploadTeam(user, teamNumber) == IF user.isAdmin THEN AdminTeam ELSE user.teamNumber

\* mutant: the flag of the request body is stored for every requester
UploadVisible_FromBody(user, isVisible) ==
    IF isVisible # "" /\ isVisible # Absent THEN isVisible ELSE "true"

\* user.isAdmin ? (isVisible || "true") : "true"
UploadVisible(user, isVisible) ==
    IF user.isAdmin
    THEN (IF isVisible # "" /\ isVisible # Absent THEN isVisible ELSE "true")
    ELSE "true"

\* the File Record fields the handler builds for the i-th file of the batch
FileData(r, teamNumber, label, assignment, tags, description, isVisible, names, i) ==
    [label |-> label,
     originalName |-> names[i],
     fileName |-> nextFileId + i - 1,
     fileType |-> ExtName(names[i]),
     fileSize |-> Len(names[i]),
     teamNumber |-> UploadTeam(r, teamNumber),
     assignment |-> assignment,
     tags |-> ParseTags(tags),
     description |-> IF Truthy(description) THEN description ELSE Null,
     isVisible |-> UploadVisible(r, isVisible)]

\* multer has written every file of the batch before the handler runs; the
\* handler creates records file by file and returns at the first invalid one
Upload(r, teamNumber, label, assignment, tags, description, isVisible, names) ==
    /\ r \in Requesters
    /\ Len(names) <= MaxUploadFiles
    /\ nextFileId + Len(names) - 1 <= MaxFiles
    /\ LET n == Len(names)
           fd(i) == FileData(r, teamNumber, label, assignment, tags, description,
                             isVisible, names, i)
           written == {nextFileId + i - 1 : i \in 1..n}
           bad == {i \in 1..n : ~insertFileSchemaOk(fd(i))}
           firstBad == IF bad = {} THEN n + 1
                       ELSE CHOOSE i \in bad : \A j \in bad : i <= j
           created == {createFile({}, nextFileId + i - 1, fd(i)) :
                          i \in 1..(firstBad - 1)}
           in == [NoInput EXCEPT !.teamNumber = teamNumber,
                                 !.label = label, !.assignment = assignment,
                                 !.tags = tags, !.description = description,
                                 !.names = names]
           out(status) == [Resp("upload", r, status) EXCEPT
                              !.target = nextFileId,
                              !.body = {nextFileId + i - 1 : i \in 1..(firstBad - 1)},
                              !.count = n, !.input = in] IN
       IF ~requireAuth(r)
       THEN /\ FilesUnchanged
            /\ resp' = Resp("upload", r, 401)
       ELSE IF \E i \in 1..n : ~fileFilter(names[i])
       THEN \* multer rejects the request and removes what it wrote
            /\ FilesUnchanged
            /\ resp' = [Resp("upload", r, 500) EXCEPT !.count = n, !.input = in]
       ELSE IF n = 0
       THEN /\ FilesUnchanged
            /\ resp' = Resp("upload", r, 400)
       ELSE /\ files' = files \cup UNION created
            /\ blobs' = IF firstBad <= n
                        THEN blobs \cup (written \ {nextFileId + firstBad - 1})
                        ELSE blobs \cup written
            /\ nextFileId' = nextFileId + n
            /\ resp' = out(IF firstBad <= n THEN 400 ELSE 200)
    /\ UNCHANGED <<backend, users, settings, sessions, inflight, nextUserId, lastToggle>>

-----------------------------------------------------------------------------
(* The destructive handlers *)

FileNames(fs) == {f.fileName : f \in fs}

\* DELETE /api/files/:id
DeleteFile(r, adminPassword, id) ==
    /\ r \in Requesters
    /\ LET file == getFileById(files, id)
           out(status) == [Resp("delete-file", r, status) EXCEPT
                              !.target = id, !.secret = adminPassword] IN
       IF ~AdminSecretOk(adminPassword)
       THEN /\ UNCHANGED <<files, blobs>>
            /\ resp' = out(401)
       ELSE IF file = NoFile
       THEN /\ UNCHANGED <<files, blobs>>
            /\ resp' = out(404)
       ELSE /\ blobs' = blobs \ {file.fileName}
            /\ files' = deleteFile(files, id)
            /\ resp' = out(200)
    /\ UNCHANGED <<backend, users, settings, sessions, inflight,
                   nextUserId, nextFileId, lastToggle>>

\* DELETE /api/files/all
DeleteAllFiles(r) ==
    /\ r \in Requesters
    /\ IF ~requireAdmin(r)
       THEN /\ UNCHANGED <<files, blobs>>
            /\ resp' = Resp("delete-all", r, 403)
       ELSE /\ blobs' = blobs \ FileNames(getAllFiles(files))
            /\ files' = files \ getAllFiles(files)
            /\ resp' = [Resp("delete-all", r, 200) EXCEPT
                           !.count = Cardinality(getAllFiles(files))]
    /\ UNCHANGED <<backend, users, settings, sessions, inflight,
                   nextUserId, nextFileId, lastToggle>>

\* mutant: only the records whose blob was unlinked are counted
DeletedCount_Unlinked(teamFiles, bl) == Cardinality(FileNames(teamFiles) \cap bl)

\* "if (deleted) deletedCount++": every record deleteFile removed
DeletedCount(teamFiles, bl) == Cardinality(teamFiles)

\* the unlink calls that throw: the blob is not in the content directory
UnlinkFailures(fs, bl) == FileNames(fs) \ bl

\* the content directory loses a blob behind the server's back
BlobLost(name) ==
    /\ name \in blobs
    /\ blobs' = blobs \ {name}
    /\ resp' = NoResp
    /\ UNCHANGED <<backend, users, files, settings, sessions, inflight,
                   nextUserId, nextFileId, lastToggle>>

\* DELETE /api/admin/teams/:teamNumber/files
DeleteTeamFiles(r, adminPassword, teamNumber) ==
    /\ r \in Requesters
    /\ LET teamFiles == getFilesByTeam(files, teamNumber)
           out(status) == [Resp("delete-team-files", r, status) EXCEPT
                              !.target = teamNumber, !.secret = adminPassword] IN
       IF ~requireAdmin(r)
       THEN /\ UNCHANGED <<files, blobs>>
            /\ resp' = out(403)
       ELSE IF ~AdminSecretOk(adminPassword)
       THEN /\ UNCHANGED <<files, blobs>>
            /\ resp' = out(401)
       ELSE /\ blobs' = blobs \ FileNames(teamFiles)
            /\ files' = files \ teamFiles
            \* body: the blobs named in the logged unlink failures
            /\ resp' = [out(200) EXCEPT !.count = DeletedCount(teamFiles, blobs),
                                        !.body = UnlinkFailures(teamFiles, blobs)]
    /\ UNCHANGED <<backend, users, settings, sessions, inflight,
                   nextUserId, nextFileId, lastToggle>>

\* DELETE /api/admin/teams/:teamNumber
DeleteTeam(r, adminPassword, teamNumber) ==
    /\ r \in Requesters
    /\ LET teamFiles == getFilesByTeam(files, teamNumber)
           out(status) == [Resp("delete-team", r, status) EXCEPT
                              !.target = teamNumber, !.secret = adminPassword] IN
       IF ~requireAdmin(r)
       THEN /\ UNCHANGED <<files, blobs, users>>
            /\ resp' = out(403)
       ELSE IF ~AdminSecretOk(adminPassword)
       THEN /\ UNCHANGED <<files, blobs, users>>
            /\ resp' = out(401)
       ELSE IF teamNumber = AdminTeam
       THEN /\ UNCHANGED <<files, blobs, users>>
            /\ resp' = out(400)
       ELSE /\ blobs' = blobs \ FileNames(teamFiles)
            /\ files' = files \ teamFiles
            /\ users' = deleteUser(users, teamNumber)
            /\ resp' = [out(200) EXCEPT !.count = Cardinality(teamFiles)]
    /\ UNCHANGED <<backend, settings, sessions, inflight, nextUserId, nextFileId, lastToggle>>

\* DELETE /api/admin/teams/:teamNumber, up to the first await of its loop:
\* the gates and the snapshot teamFiles
DeleteTeamStart(s, r, adminPassword, teamNumber) ==
    /\ r \in Requesters
    /\ inflight[s] = Idle
    /\ LET teamFiles == getFilesByTeam(files, teamNumber)
           out(status) == [Resp("delete-team", r, status) EXCEPT
                              !.target = teamNumber, !.secret = adminPassword] IN
       IF ~requireAdmin(r)
       THEN inflight' = inflight /\ resp' = out(403)
       ELSE IF ~AdminSecretOk(adminPassword)
       THEN inflight' = inflight /\ resp' = out(401)
       ELSE IF teamNumber = AdminTeam
       THEN inflight' = inflight /\ resp' = out(400)
       ELSE /\ inflight' = [inflight EXCEPT ![s] =
                    [Idle EXCEPT !.kind = "delete-team", !.pc = "loop",
                                 !.teamNumber = teamNumber,
                                 !.password = adminPassword, !.found = TRUE,
                                 !.todo = Ids(teamFiles),
                                 !.snapshot = Ids(teamFiles)]]
            /\ resp' = NoResp
    /\ UNCHANGED <<backend, users, files, settings, blobs, sessions,
                   nextUserId, nextFileId, lastToggle>>

\* mutant: the loop is left after its first round
LoopDone_AfterOne(todo, snapshot) == todo # snapshot \/ todo = {}

\* "for (const file of teamFiles)": no file of the snapshot is left
LoopDone(todo, snapshot) == todo = {}

\* one round of the loop: unlink the blob (a failure is logged), deleteFile
DeleteTeamStep(s) ==
    /\ inflight[s].kind = "delete-team"
    /\ ~LoopDone(inflight[s].todo, inflight[s].snapshot)
    /\ LET id == CHOOSE x \in inflight[s].todo :
                    \A y \in inflight[s].todo : x <= y IN
       \* the snapshot holds the record, so the path is known even when the
       \* record is gone by now; fileName is the record's id in this model
       /\ blobs' = blobs \ {id}
       /\ files' = deleteFile(files, id)
       /\ inflight' = [inflight EXCEPT ![s].todo = @ \ {id}]
    /\ resp' = NoResp
    /\ UNCHANGED <<backend, users, settings, sessions, nextUserId, nextFileId,
                   lastToggle>>

\* after the loop: deleteUser, then the answer
DeleteTeamFinish(s) ==
    /\ inflight[s].kind = "delete-team"
    /\ LoopDone(inflight[s].todo, inflight[s].snapshot)
    /\ users' = deleteUser(users, inflight[s].teamNumber)
    /\ resp' = [Resp("delete-team", AdminUser, 200) EXCEPT
                   !.target = inflight[s].teamNumber,
                   !.secret = inflight[s].password,
                   !.body = inflight[s].snapshot,
                   !.count = Cardinality(inflight[s].snapshot)]
    /\ inflight' = [inflight EXCEPT ![s] = Idle]
    /\ UNCHANGED <<backend, files, settings, blobs, sessions, nextUserId,
                   nextFileId, lastToggle>>

\* deleteUser(user.teamNumber) for every account of the snapshot, in order
RECURSIVE DeleteUsers(_, _)
DeleteUsers(us, todo) ==
    IF todo = {} THEN us
    ELSE LET u == FirstById(todo, NoUser) IN
         DeleteUsers(deleteUser(us, u.teamNumber), todo \ {u})

\* mutant: the rows are dropped and the defaults seeded again
ResetSettings_Reseed(st, todo) == [a \in DefaultAssignments |-> "false"]

\* updateAssignmentSetting(setting.assignment, false) for every row
RECURSIVE ResetSettings(_, _)
ResetSettings(st, todo) ==
    IF todo = {} THEN st
    ELSE LET a == CHOOSE x \in todo : TRUE IN
         ResetSettings(updateAssignmentSetting(st, a, FALSE), todo \ {a})

ConfirmText == "RESET ALL DATA"

\* POST /api/admin/reset-server
ResetServer(r, adminPassword, confirmText) ==
    /\ r \in Requesters
    /\ LET allFiles == getAllFiles(files)
           allUsers == {u \in users : u.teamNumber # AdminTeam}
           out(status) == [Resp("reset", r, status) EXCEPT
                              !.secret = adminPassword] IN
       IF ~requireAdmin(r)
       THEN /\ UNCHANGED <<files, blobs, users, settings>>
            /\ resp' = out(403)
       ELSE IF ~AdminSecretOk(adminPassword)
       THEN /\ UNCHANGED <<files, blobs, users, settings>>
            /\ resp' = out(401)
       ELSE IF confirmText # ConfirmText
       THEN /\ UNCHANGED <<files, blobs, users, settings>>
            /\ resp' = out(400)
       ELSE /\ blobs' = blobs \ FileNames(allFiles)
            /\ files' = files \ allFiles
            /\ users' = DeleteUsers(users, allUsers)
            /\ settings' = ResetSettings(settings, DOMAIN settings)
            \* filesDeleted counts the unlinks that succeeded
            /\ resp' = [out(200) EXCEPT
                           !.count = Cardinality(FileNames(allFiles) \cap blobs)]
    /\ UNCHANGED <<backend, sessions, inflight, nextUserId, nextFileId, lastToggle>>

-----------------------------------------------------------------------------
(* Initial state: the store as constructed, nobody logged in *)

Init ==
    /\ backend \in {"mem", "db"}
    /\ users = {}
    /\ files = {}
    /\ settings = [a \in DefaultAssignments |-> "false"]
    /\ blobs = {}
    /\ sessions = {}
    /\ inflight = [s \in Slots |-> Idle]
    /\ resp = NoResp
    /\ nextUserId = 1
    /\ nextFileId = 1
    /\ lastToggle = << >>


-----------------------------------------------------------------------------
(* Request inputs *)

WrongPassword == <<"n", "o">>
StrongPassword == <<"A", "b", "c", "d", "e", "f", "1", "2", "3", "4", "5", "!">>
OtherPassword == <<"Q", "r", "t", "x", "z", "a", "9", "8", "7", "6", "5", "?">>
WeakPassword == <<"a", "b", "c", "d", "e", "f", "a", "b", "c", "d", "e", "f">>

ReportLabel == <<"Q", "1">>
NewLabel == <<"Z">>
PdfName == <<"r", ".", "P", "D", "F">>
ExeName == <<"r", ".", "e", "x", "e">>

AllQuery == [NoQuery EXCEPT !.kind = "all"]
TeamQuery(n) == [NoQuery EXCEPT !.kind = "team", !.team = n]
AssignmentQuery(a) == [NoQuery EXCEPT !.kind = "assignment", !.assignment = a]
TypeQuery(t) == [NoQuery EXCEPT !.kind = "type", !.text = t]
SearchQuery(t) == [NoQuery EXCEPT !.kind = "search", !.text = t]

FileIds == 1..MaxFiles

-----------------------------------------------------------------------------
(* Visibility: logins, uploads, the two switches, listing and download;
   handlers run one at a time *)

ViewAdminLogin ==
    Quiescent /\ \E password \in {AdminPassword, WrongPassword} : AdminLogin(password)

ViewLoginStart ==
    Quiescent /\ \E n \in {1, 2} : LoginStart(1, n, TeamPassword(n))

ViewLoginFinish == LoginFinish(1)

ViewUpload ==
    Quiescent /\ \E r \in Requesters \ {TeamUser(2)}, assignment \in {"A1", "X9"},
                    isVisible \in {Absent, "false"} :
                    Upload(r, NoTeamField, ReportLabel, assignment, Undefined, Undefined,
                           isVisible, <<PdfName>>)

ViewPutAssignmentSetting ==
    Quiescent /\ \E r \in sessions \ {TeamUser(2)}, assignment \in {"A1"},
                    isOpenView \in BOOLEAN :
                    PutAssignmentSetting(r, assignment, TRUE, isOpenView)

ViewPutVisibility ==
    Quiescent /\ \E r \in sessions \ {TeamUser(2)}, id \in FileIds,
                    isVisible \in {"true", "false"} :
                    PutVisibility(r, id, isVisible)

ViewQueries == {AllQuery, TeamQuery(1), AssignmentQuery("A1")}

ViewListFiles ==
    Quiescent /\ \E r \in Requesters, q \in ViewQueries : ListFiles(r, q)

ViewDownload ==
    Quiescent /\ \E r \in Requesters, id \in FileIds : Download(r, id)

Next ==
    \/ ViewAdminLogin
    \/ ViewLoginStart
    \/ ViewLoginFinish
    \/ ViewUpload
    \/ ViewPutAssignmentSetting
    \/ ViewPutVisibility
    \/ ViewListFiles
    \/ ViewDownload

Spec == Init /\ [][Next]_vars


-----------------------------------------------------------------------------
(* Properties of listing and download *)

\* the response at hand is a successful listing
Listed == resp.op = "list" /\ resp.status = 200
\* the records the store query of that listing selects
Candidates == QueryFiles(files, resp.query)
\* the assignment has a settings row whose flag is "true"
AssignmentOpen(a) == a \in DOMAIN settings /\ settings[a] = "true"

\* C1: a listing by an admin returns every record of the store query, whatever
\* the record's team, visibility flag or assignment setting.
C1_AdminListsEverything ==
    (Listed /\ resp.by.isAdmin) => resp.body = Ids(Candidates)

C1_Witness ==
    /\ Listed /\ resp.by.isAdmin
    /\ \E f, g \in files :
        /\ f.teamNumber = AdminTeam /\ f.isVisible = "false"
        /\ g.teamNumber # AdminTeam /\ ~AssignmentOpen(g.assignment)
        /\ {f.id, g.id} \subseteq resp.body

\* C2: in a listing by a non-admin, an instructor (team 0) file is returned
\* exactly when its visibility flag is "true", whatever the assignment
\* settings are.
C2_TeamZeroByFlagOnly ==
    (Listed /\ ~resp.by.isAdmin) =>
        \A f \in Candidates :
            f.teamNumber = AdminTeam =>
                (f.id \in resp.body <=> f.isVisible = "true")

C2_Witness ==
    /\ Listed /\ ~resp.by.isAdmin
    /\ \E f, g \in Candidates :
        /\ f.teamNumber = AdminTeam /\ f.isVisible = "false"
        /\ AssignmentOpen(f.assignment) /\ f.id \notin resp.body
        /\ g.teamNumber = AdminTeam /\ g.isVisible = "true"
        /\ ~AssignmentOpen(g.assignment) /\ g.id \in resp.body

\* C3: in a listing by a non-admin, a file of a real team is returned exactly
\* when the requester's team owns it or its assignment is open view; an
\* assignment without a settings row is not open.
C3_TeamFilesOwnOrOpen ==
    (Listed /\ ~resp.by.isAdmin) =>
        /\ resp.body \subseteq Ids(Candidates)
        /\ \A f \in Candidates :
            f.teamNumber # AdminTeam =>
                (f.id \in resp.body <=>
                    (f.teamNumber = resp.by.teamNumber \/ AssignmentOpen(f.assignment)))

C3_Witness ==
    /\ Listed /\ ~resp.by.isAdmin
    /\ \E f, g \in Candidates :
        /\ f.teamNumber \notin {AdminTeam, resp.by.teamNumber}
        /\ f.assignment \notin DOMAIN settings /\ f.id \notin resp.body
        /\ g.teamNumber \notin {AdminTeam, resp.by.teamNumber}
        /\ AssignmentOpen(g.assignment) /\ g.id \in resp.body

\* C4 (as claimed): a download of an existing file by an authenticated
\* requester is authorized exactly when the listing would show the requester
\* that file in the same state.
C4_DownloadAsListing ==
    (resp.op = "download" /\ resp.by.auth
        /\ getFileById(files, resp.target) # NoFile) =>
        (resp.status # 403 <=>
            getFileById(files, resp.target) \in ListVisible(files, resp.by, settings))

\* C5: a listing by a team that does not own a team's file contains the file
\* exactly when the last completed toggle of the file's assignment asked for
\* open view (never toggled counts as closed); the owner's listing contains
\* it always.
C5_ListingTracksLastToggle ==
    (Listed /\ ~resp.by.isAdmin) =>
        \A f \in Candidates :
            f.teamNumber # AdminTeam =>
                IF f.teamNumber = resp.by.teamNumber
                THEN f.id \in resp.body
                ELSE (f.id \in resp.body <=>
                        (f.assignment \in DOMAIN lastToggle
                            /\ lastToggle[f.assignment]))

C5_Witness ==
    /\ Listed /\ ~resp.by.isAdmin
    /\ \E f \in Candidates :
        /\ f.teamNumber \notin {AdminTeam, resp.by.teamNumber}
        /\ f.assignment \in DOMAIN lastToggle
        /\ ~lastToggle[f.assignment]
        /\ f.id \notin resp.body


-----------------------------------------------------------------------------
(* Administration: logins, uploads, edits and the destructive handlers;
   handlers run one at a time *)

Secrets == {AdminPassword, WrongPassword}

AdmAdminLogin == Quiescent /\ AdminLogin(AdminPassword)

AdmLoginStart == Quiescent /\ LoginStart(1, 1, TeamPassword(1))

AdmLoginFinish == LoginFinish(1)

AdmUpload ==
    Quiescent /\ \E r \in sessions :
                    Upload(r, NoTeamField, ReportLabel, "A1", Undefined, Undefined, Absent,
                           <<PdfName>>)

AdmPutFile ==
    Quiescent /\ \E r \in Requesters, id \in FileIds :
                    PutFile(r, id, NewLabel, Undefined, UndefinedList)

AdmDeleteFile ==
    Quiescent /\ \E r \in Requesters, adminPassword \in Secrets, id \in FileIds :
                    DeleteFile(r, adminPassword, id)

AdmDeleteAllFiles ==
    Quiescent /\ \E r \in Requesters : DeleteAllFiles(r)

AdmDeleteTeamFiles ==
    Quiescent /\ \E r \in sessions, adminPassword \in Secrets :
                    DeleteTeamFiles(r, adminPassword, 1)

AdmDeleteTeam ==
    Quiescent /\ \E r \in sessions, adminPassword \in Secrets :
                    DeleteTeam(r, adminPassword, 1)

AdmResetServer ==
    Quiescent /\ \E r \in sessions, adminPassword \in Secrets :
                    ResetServer(r, adminPassword, ConfirmText)

NextAdmin ==
    \/ AdmAdminLogin
    \/ AdmLoginStart
    \/ AdmLoginFinish
    \/ AdmUpload
    \/ AdmPutFile
    \/ AdmDeleteFile
    \/ AdmDeleteAllFiles
    \/ AdmDeleteTeamFiles
    \/ AdmDeleteTeam
    \/ AdmResetServer

SpecAdmin == Init /\ [][NextAdmin]_vars

-----------------------------------------------------------------------------
(* Properties of the destructive handlers and of editing *)

DestructiveOps == {"delete-file", "delete-all", "delete-team-files",
                   "delete-team", "reset"}

\* C6 (as claimed): a step of a destructive admin handler removes records
\* only when its request carries the correct admin secret.
C6_DestructiveNeedsSecret ==
    [][(resp'.op \in DestructiveOps /\ resp'.secret # AdminPassword)
            => (files' = files /\ users' = users /\ settings' = settings)]_vars

\* C7 (as claimed): a step of the single-file delete handler removes a file
\* only when the requester holds an admin session and the request carries the
\* correct admin secret.
C7_DeleteFileDoubleGate ==
    [][(resp'.op = "delete-file" /\ files' # files)
            => (requireAdmin(resp'.by) /\ resp'.secret = AdminPassword)]_vars

\* the requester's team owns the file; the admin owns the team-0 files
Owns(r, f) ==
    IF r.isAdmin THEN f.teamNumber = AdminTeam ELSE f.teamNumber = r.teamNumber

\* C8: an edit of a file's details succeeds only for the file's owner (for an
\* admin: only on a team-0 file); an authenticated requester who is not the
\* owner is refused with 403, and every refused edit leaves the records as
\* they were.
C8_EditOnlyByOwner ==
    [][resp'.op = "edit" =>
        LET f == getFileById(files, resp'.target) IN
        /\ resp'.status = 200 => (f # NoFile /\ Owns(resp'.by, f))
        /\ (resp'.by.auth /\ f # NoFile /\ ~Owns(resp'.by, f))
                => resp'.status = 403
        /\ resp'.status # 200 => files' = files
        /\ \A g \in files : g.id # resp'.target => g \in files']_vars

C8_Witness ==
    /\ resp.op = "edit" /\ resp.status = 403 /\ resp.by.isAdmin
    /\ getFileById(files, resp.target).teamNumber = 1
    /\ getFileById(files, resp.target).label = ReportLabel


-----------------------------------------------------------------------------
(* Accounts, interleaved: two registration or login requests in flight *)

TeamName == <<"A", "c", "e">>
ShortName == <<"x">>

\* MemStorage answers with promises that are already resolved, so a handler
\* runs on to its first real suspension (bcrypt, the database) within one
\* turn of the event loop; no other handler runs in between
MidTurn(t) ==
    /\ backend = "mem"
    /\ \/ (inflight[t].kind = "login" /\ inflight[t].pc = "create")
       \/ (inflight[t].kind = "register" /\ inflight[t].pc = "name")

Turn(s) == \A t \in Slots \ {s} : ~MidTurn(t)

AuthRegisterStart ==
    \E s \in Slots, teamName \in {Undefined, TeamName} :
        Turn(s) /\ RegisterStart(s, 1, teamName, StrongPassword)

AuthRegisterCheckName == \E s \in Slots : Turn(s) /\ RegisterCheckName(s)

AuthRegisterFinish == \E s \in Slots : Turn(s) /\ RegisterFinish(s)

AuthLoginStart ==
    \E s \in Slots, password \in {TeamPassword(1), StrongPassword} :
        Turn(s) /\ LoginStart(s, 1, password)

AuthLoginFinish == \E s \in Slots : Turn(s) /\ LoginFinish(s)

NextAuth ==
    \/ AuthRegisterStart
    \/ AuthRegisterCheckName
    \/ AuthRegisterFinish
    \/ AuthLoginStart
    \/ AuthLoginFinish

SpecAuth == Init /\ [][NextAuth]_vars

\* C9 (as claimed): no two accounts have the same team number, whatever the
\* interleaving of registrations and legacy logins.
C9_OneAccountPerTeam ==
    \A u, v \in users : u.teamNumber = v.teamNumber => u.id = v.id

-----------------------------------------------------------------------------
(* Accounts, one request at a time *)

SerRegisterStart ==
    Quiescent /\ \E teamNumber \in {1, 3},
                    teamName \in {Undefined, TeamName, ShortName},
                    password \in {StrongPassword, OtherPassword, WeakPassword} :
                    RegisterStart(1, teamNumber, teamName, password)

SerRegisterCheckName == RegisterCheckName(1)

SerRegisterFinish == RegisterFinish(1)

SerLoginStart ==
    Quiescent /\ \E teamNumber \in {1, 3},
                    password \in {TeamPassword(1), StrongPassword} :
                    LoginStart(1, teamNumber, password)

SerLoginFinish == LoginFinish(1)

SerAdminLogin == Quiescent /\ AdminLogin(AdminPassword)

SerDeleteTeam ==
    Quiescent /\ \E r \in sessions, teamNumber \in {1, 3} :
                    DeleteTeam(r, AdminPassword, teamNumber)

NextSerialAuth ==
    \/ SerRegisterStart
    \/ SerRegisterCheckName
    \/ SerRegisterFinish
    \/ SerLoginStart
    \/ SerLoginFinish
    \/ SerAdminLogin
    \/ SerDeleteTeam

SpecSerialAuth == Init /\ [][NextSerialAuth]_vars

\* an account of the team has a password digest
HasDigest(us, n) == \E u \in us : u.teamNumber = n /\ u.passwordHash # NoHash

\* the team name counts as given
Named(teamName) == Truthy(teamName) /\ Truthy(Trim(teamName))

\* the request body passes the schema and the password and team-name rules
ValidRegistration(teamNumber, teamName, password) ==
    /\ registerUserSchemaOk(teamNumber, teamName, password)
    /\ validatePassword(password) = {}
    /\ Named(teamName) => validateTeamName(teamName) = {}

-----------------------------------------------------------------------------
(* Properties of the team login, one request at a time *)

\* C11: a login for a team of 1..9 whose account has no digest, with the
\* shared secret configured for that team, answers 200 with the requester
\* resolved to that team as a non-admin; afterwards the team has an account:
\* the one it had, or a new one with no digest and not admin.
C11_LegacyLoginSucceeds ==
    [][resp'.op = "login" =>
        LET n == resp'.target
            password == resp'.secret IN
        (/\ n \in MinTeamNumber..MaxTeamNumber
         /\ ~HasDigest(users, n)
         /\ IsString(TeamPassword(n)) /\ password = TeamPassword(n)) =>
            /\ resp'.status = 200
            /\ resp'.by = TeamUser(n)
            /\ ~resp'.by.isAdmin
            /\ TeamUser(n) \in sessions'
            /\ IF \E u \in users : u.teamNumber = n
               THEN users' = users
               ELSE \E u \in users' :
                        /\ users' = users \cup {u}
                        /\ u \notin users
                        /\ u.teamNumber = n
                        /\ u.passwordHash = NoHash
                        /\ u.isAdmin = "false"]_vars

C11_Witness ==
    /\ resp.op = "login" /\ resp.status = 200
    /\ resp.secret = TeamPassword(resp.target)
    /\ \E u \in users : /\ u.teamNumber = resp.target
                        /\ u.passwordHash = NoHash
                        /\ u.isAdmin = "false"
                        /\ u.id = nextUserId - 1

\* C12: a login for a team whose account has a digest is accepted exactly
\* when the supplied password verifies against that digest and the account
\* is active; the team's shared secret is refused, and a refused login opens
\* no session.
C12_DigestOnlyOnceRegistered ==
    [][resp'.op = "login" =>
        LET n == resp'.target
            password == resp'.secret
            u == getUserByTeam(users, n) IN
        HasDigest(users, n) =>
            /\ resp'.status = 200 <=>
                  (verifyPassword(password, u.passwordHash) /\ u.isActive = "true")
            /\ resp'.status # 200 => sessions' = sessions
            /\ users' = users]_vars

C12_Witness ==
    /\ resp.op = "login" /\ resp.status = 401
    /\ resp.secret = TeamPassword(resp.target)
    /\ HasDigest(users, resp.target)


-----------------------------------------------------------------------------
(* Deleting a team, step by step, with logins, uploads and single deletes of
   other requests in between *)

\* with MemStorage the handler goes from its last deleteFile (or from the
\* snapshot, when that is empty) to deleteUser within one turn
MidTurnDelete(t) ==
    /\ backend = "mem"
    /\ inflight[t].kind = "delete-team"
    /\ inflight[t].todo = {}

CasTurn(s) == \A t \in Slots \ {s} : ~MidTurn(t) /\ ~MidTurnDelete(t)

CasIdleTurn == \A t \in Slots : ~MidTurn(t) /\ ~MidTurnDelete(t)

CasAdminLogin == CasIdleTurn /\ AdminLogin(AdminPassword)

CasLoginStart == \E s \in Slots : CasTurn(s) /\ LoginStart(s, 1, TeamPassword(1))

CasLoginFinish == \E s \in Slots : CasTurn(s) /\ LoginFinish(s)

CasUpload ==
    CasIdleTurn /\ \E r \in sessions :
                      Upload(r, NoTeamField, ReportLabel, "A1", Undefined, Undefined, Absent,
                             <<PdfName>>)

CasDeleteFile ==
    CasIdleTurn /\ \E r \in sessions, id \in FileIds : DeleteFile(r, AdminPassword, id)

CasDeleteTeamStart ==
    \E s \in Slots, r \in Requesters, adminPassword \in Secrets,
       teamNumber \in {AdminTeam, 1} :
        CasTurn(s) /\ DeleteTeamStart(s, r, adminPassword, teamNumber)

CasDeleteTeamStep == \E s \in Slots : CasTurn(s) /\ DeleteTeamStep(s)

CasDeleteTeamFinish == \E s \in Slots : CasTurn(s) /\ DeleteTeamFinish(s)

NextCascade ==
    \/ CasAdminLogin
    \/ CasLoginStart
    \/ CasLoginFinish
    \/ CasUpload
    \/ CasDeleteFile
    \/ CasDeleteTeamStart
    \/ CasDeleteTeamStep
    \/ CasDeleteTeamFinish

SpecCascade == Init /\ [][NextCascade]_vars

\* a delete-team request has been answered 200: none of the records it found
\* at its start exists
CascadeDone ==
    (resp.op = "delete-team" /\ resp.status = 200) =>
        /\ resp.target # AdminTeam
        /\ resp.body \cap Ids(files) = {}

\* the step in which a delete-team request removes the account comes after
\* the last of its records is gone; accounts go in no other step; a request
\* for team 0 is refused and changes nothing
CascadeStep ==
    /\ \A s \in Slots :
          (inflight[s].kind = "delete-team" /\ inflight'[s] = Idle) =>
              /\ inflight[s].snapshot \cap Ids(files) = {}
              /\ files' = files
              /\ inflight[s].teamNumber # AdminTeam
              /\ users' = {u \in users : u.teamNumber # inflight[s].teamNumber}
    /\ (users \ users' # {}) =>
          \E s \in Slots : inflight[s].kind = "delete-team" /\ inflight'[s] = Idle
    /\ (resp'.op = "delete-team" /\ resp'.target = AdminTeam) =>
          /\ resp'.status \in {400, 401, 403}
          /\ UNCHANGED <<users, files, blobs, inflight>>

\* C13: deleting a team other than team 0 removes every File Record the team
\* had when the request started before it removes the team's account, so the
\* account is never gone while one of those records exists; a delete-team
\* request for team 0 is refused and changes nothing.
C13_CascadeBeforeAccount == []CascadeDone /\ [][CascadeStep]_vars

C13_Witness ==
    /\ resp.op = "delete-team" /\ resp.status = 200
    /\ Cardinality(resp.body) = 2
    /\ nextUserId > 1
    /\ ~\E u \in users : u.teamNumber = resp.target


-----------------------------------------------------------------------------
(* Bulk delete of a team's files when blobs are missing; handlers run one at
   a time *)

BlkAdminLogin == Quiescent /\ AdminLogin(AdminPassword)

BlkLoginStart == Quiescent /\ LoginStart(1, 1, TeamPassword(1))

BlkLoginFinish == LoginFinish(1)

BlkUpload ==
    Quiescent /\ \E r \in sessions :
                    Upload(r, NoTeamField, ReportLabel, "A1", Undefined, Undefined, Absent,
                           <<PdfName>>)

BlkBlobLost == Quiescent /\ \E name \in FileIds : BlobLost(name)

BlkDeleteTeamFiles ==
    Quiescent /\ \E r \in Requesters, adminPassword \in Secrets,
                    teamNumber \in {AdminTeam, 1} :
                    DeleteTeamFiles(r, adminPassword, teamNumber)

NextBulk ==
    \/ BlkAdminLogin
    \/ BlkLoginStart
    \/ BlkLoginFinish
    \/ BlkUpload
    \/ BlkBlobLost
    \/ BlkDeleteTeamFiles

SpecBulk == Init /\ [][NextBulk]_vars

\* C14: a bulk delete of a team's files by an admin with the correct secret
\* answers 200 whether or not the blobs of the team's records exist; it
\* removes every record of the team and no other record, leaves no blob of
\* those records, and reports as deleted count the number of records removed.
C14_BulkDeleteToleratesMissingBlobs ==
    [][(/\ resp'.op = "delete-team-files"
        /\ requireAdmin(resp'.by)
        /\ resp'.secret = AdminPassword) =>
        LET teamFiles == {f \in files : f.teamNumber = resp'.target} IN
        /\ resp'.status = 200
        /\ files' = files \ teamFiles
        /\ resp'.count = Cardinality(files \ files')
        /\ resp'.count = Cardinality(teamFiles)
        /\ blobs' = blobs \ FileNames(teamFiles)]_vars

C14_Witness ==
    /\ resp.op = "delete-team-files" /\ resp.status = 200
    /\ resp.count = 2
    /\ Cardinality(resp.body) = 1


-----------------------------------------------------------------------------
(* Assignment settings: seed, upsert and reset, with listing and download;
   handlers run one at a time *)

SetAdminLogin == Quiescent /\ AdminLogin(AdminPassword)

SetLoginStart == Quiescent /\ \E n \in {1, 2} : LoginStart(1, n, TeamPassword(n))

SetLoginFinish == LoginFinish(1)

SetUpload ==
    Quiescent /\ Upload(TeamUser(1), NoTeamField, ReportLabel, "X9", Undefined, Undefined,
                        Absent, <<PdfName>>)

SetPutAssignmentSetting ==
    Quiescent /\ \E r \in sessions \ {TeamUser(2)}, assignment \in {"A1", "X9"},
                    isOpenView \in BOOLEAN :
                    PutAssignmentSetting(r, assignment, TRUE, isOpenView)

SetResetServer ==
    Quiescent /\ \E r \in sessions \ {TeamUser(2)} :
                    ResetServer(r, AdminPassword, ConfirmText)

SetListFiles == Quiescent /\ ListFiles(TeamUser(2), AllQuery)

SetDownload == Quiescent /\ \E id \in FileIds : Download(TeamUser(2), id)

NextSettings ==
    \/ SetAdminLogin
    \/ SetLoginStart
    \/ SetLoginFinish
    \/ SetUpload
    \/ SetPutAssignmentSetting
    \/ SetResetServer
    \/ SetListFiles
    \/ SetDownload

SpecSettings == Init /\ [][NextSettings]_vars

\* no two rows for one assignment; a file of another team whose assignment
\* has no row is neither listed for nor downloadable by a non-admin
SettingsState ==
    /\ \A x, y \in getAssignmentSettings(settings) :
          x.assignment = y.assignment => x = y
    /\ (Listed /\ ~resp.by.isAdmin) =>
          \A f \in Candidates :
              (f.teamNumber \notin {AdminTeam, resp.by.teamNumber}
                  /\ getAssignmentSetting(settings, f.assignment) = NoSetting)
                  => f.id \notin resp.body
    /\ (resp.op = "download" /\ resp.by.auth /\ ~resp.by.isAdmin) =>
          LET f == getFileById(files, resp.target) IN
          (f # NoFile /\ f.teamNumber \notin {AdminTeam, resp.by.teamNumber}
              /\ getAssignmentSetting(settings, f.assignment) = NoSetting)
              => resp.status = 403

\* an accepted upsert of (a, b): the row of a exists afterwards with flag b,
\* no other row appears, disappears or changes
SettingsStep ==
    (resp'.op = "setting" /\ resp'.status = 200) =>
        LET a == resp'.query.assignment IN
        /\ DOMAIN settings' = DOMAIN settings \cup {a}
        /\ getAssignmentSetting(settings', a).assignment = a
        /\ getAssignmentSetting(settings', a).isOpenView = resp'.message
        /\ \A x \in DOMAIN settings \ {a} : settings'[x] = settings[x]

\* C15: after any sequence of seed, upsert and reset there is at most one
\* setting per assignment name; an upsert of (a, b) creates the row of a when
\* it is absent and otherwise updates it in place, and get-by-assignment(a)
\* then returns b; listing and download treat an assignment without a row as
\* not open.
C15_OneSettingPerAssignment == []SettingsState /\ [][SettingsStep]_vars

C15_Witness ==
    /\ resp.op = "setting" /\ resp.status = 200
    /\ resp.query.assignment \notin DefaultAssignments
    /\ resp.message = "false"
    /\ lastToggle[resp.query.assignment] = FALSE
    /\ getAssignmentSetting(settings, resp.query.assignment).isOpenView = "false"
    /\ files # {}

\* C16: a successful reset keeps the assignment names of the settings, leaves
\* every setting closed, and leaves no File Record and no account of a team
\* other than team 0.
C16_ResetKeepsRowsClearsData ==
    [][(resp'.op = "reset" /\ resp'.status = 200) =>
        /\ DOMAIN settings' = DOMAIN settings
        /\ \A a \in DOMAIN settings' : settings'[a] = "false"
        /\ files' = {}
        /\ \A u \in users' : u.teamNumber = AdminTeam]_vars

C16_Witness ==
    /\ resp.op = "reset" /\ resp.status = 200
    /\ resp.count > 0
    /\ nextUserId > 1 /\ users = {}
    /\ "X9" \in DOMAIN settings /\ settings["X9"] = "false"
    /\ "X9" \in DOMAIN lastToggle /\ lastToggle["X9"]

-----------------------------------------------------------------------------
(* Uploads: single files and batches with and without a disallowed type, with
   and without a label, tags strings with and without empty entries, a body
   that names a foreign team; deletions by id; handlers run one at a time *)

PngName == <<"p", "q", ".", "p", "n", "g">>
TagsAB == <<"a", ",", " ", "b">>
TagsGap == <<"a", ",", ",", "b">>

UplBatches == {<<PdfName>>, <<PdfName, PngName>>, <<PdfName, ExeName>>,
               <<ExeName, PngName>>}

UplAdminLogin == Quiescent /\ AdminLogin(AdminPassword)

UplLoginStart == Quiescent /\ LoginStart(1, 1, TeamPassword(1))

UplLoginFinish == LoginFinish(1)

UplUpload ==
    Quiescent /\ \E r \in Requesters, teamNumber \in {NoTeamField, 2},
                    label \in {ReportLabel, Undefined},
                    tags \in {Undefined, TagsAB, TagsGap}, names \in UplBatches :
                    Upload(r, teamNumber, label, "A1", tags, Undefined, Absent, names)

UplDeleteFile ==
    Quiescent /\ \E r \in sessions, id \in FileIds : DeleteFile(r, AdminPassword, id)

NextUpload ==
    \/ UplAdminLogin
    \/ UplLoginStart
    \/ UplLoginFinish
    \/ UplUpload
    \/ UplDeleteFile

SpecUpload == Init /\ [][NextUpload]_vars

\* the tags a comma-separated tags string names: its entries, trimmed, the
\* empty ones left out, in order
TagEntries(tags) ==
    IF ~Truthy(tags) THEN <<>>
    ELSE LET parts == SplitComma(tags)
             trimmed == [i \in 1..Len(parts) |-> Trim(parts[i])]
             NonEmpty(t) == t # <<>> IN
         SelectSeq(trimmed, NonEmpty)

\* a successful upload: every created record is found by its id and carries
\* the request's label, assignment and tags and the size of its file
RoundTripUpload ==
    (resp'.op = "upload" /\ resp'.status = 200) =>
        \A id \in resp'.body :
            LET f == getFileById(files', id)
                i == id - resp'.target + 1 IN
            /\ f # NoFile
            /\ f.label = resp'.input.label
            /\ f.assignment = resp'.input.assignment
            /\ f.tags = TagEntries(resp'.input.tags)
            /\ f.fileSize = Len(resp'.input.names[i])

\* a delete by id: afterwards the id is not found and no other record has
\* changed; a delete of an id that is not there removes nothing
RoundTripDelete ==
    resp'.op = "delete-file" =>
        LET file == getFileById(files, resp'.target) IN
        /\ resp'.status = 200 =>
              /\ file # NoFile
              /\ getFileById(files', resp'.target) = NoFile
              /\ files' = files \ {file}
        /\ file = NoFile => (resp'.status = 404 /\ files' = files)

\* C17: after a successful upload, get-by-id of each created record returns a
\* record whose label, assignment, tags and size equal the uploaded input;
\* after the record is deleted, get-by-id returns not-found and a second
\* delete of the same id removes nothing and changes no other record.
C17_UploadGetDeleteRoundTrip == [][RoundTripUpload /\ RoundTripDelete]_vars

\* the records a step has created
Created == {f \in files' : f.id \notin Ids(files)}

\* C18: every File Record an upload creates is owned by the requester's team,
\* by team 0 when the requester is admin, whatever the request body says;
\* nothing but an upload creates a record.
C18_UploadOwnedByRequester ==
    [][/\ Created # {} => resp'.op = "upload"
       /\ \A f \in Created :
             f.teamNumber = IF resp'.by.isAdmin THEN AdminTeam
                            ELSE resp'.by.teamNumber]_vars

C18_Witness ==
    /\ resp.op = "upload" /\ resp.status = 200
    /\ resp.by = TeamUser(1) /\ resp.input.teamNumber = 2
    /\ \E f \in files : f.id \in resp.body /\ f.teamNumber = 1
    /\ \E f \in files : f.teamNumber = AdminTeam

\* the i-th file of the batch passes the type filter and the record schema
ValidFile(input, i) == fileFilter(input.names[i]) /\ insertFileSchemaOk(input)

\* C19: in a batch upload each file succeeds or fails on its own: every valid
\* file of the batch, before or after a failing one, gets its File Record; a
\* failing file gets none and its bytes are removed, so every blob the
\* request leaves behind belongs to a record it created.
C19_BatchFilesIndependent ==
    [][(resp'.op = "upload" /\ resp'.by.auth /\ resp'.count > 0) =>
        /\ \A i \in 1..Len(resp'.input.names) :
              ValidFile(resp'.input, i) <=>
                  \E f \in Created : f.originalName = resp'.input.names[i]
        /\ blobs' \ blobs \subseteq FileNames(Created)]_vars


-----------------------------------------------------------------------------
(* Edits: uploads by admin and by a team, then PUT /api/files/:id with every
   field provided, absent or empty, on known and unknown ids; handlers run
   one at a time *)

NewDescription == <<"d">>
NewTag == <<"t">>

\* {label, description, tags} of the request body
EdtBodies == {<<NewLabel, Undefined, UndefinedList>>,
              <<<<>>, NewDescription, <<NewTag>>>>,
              <<Undefined, <<>>, <<>>>>}

EdtAdminLogin == Quiescent /\ AdminLogin(AdminPassword)

EdtLoginStart == Quiescent /\ LoginStart(1, 1, TeamPassword(1))

EdtLoginFinish == LoginFinish(1)

EdtUpload ==
    Quiescent /\ \E r \in sessions :
                    Upload(r, NoTeamField, ReportLabel, "A1", TagsAB, Undefined,
                           "false", <<PdfName>>)

EdtPutFile ==
    Quiescent /\ \E r \in Requesters, id \in FileIds, b \in EdtBodies :
                    PutFile(r, id, b[1], b[2], b[3])

NextEdit ==
    \/ EdtAdminLogin
    \/ EdtLoginStart
    \/ EdtLoginFinish
    \/ EdtUpload
    \/ EdtPutFile

SpecEdit == Init /\ [][NextEdit]_vars

\* the attributes update-details may not touch
Untouched(f) ==
    [id |-> f.id, teamNumber |-> f.teamNumber, assignment |-> f.assignment,
     originalName |-> f.originalName, fileName |-> f.fileName,
     fileType |-> f.fileType, fileSize |-> f.fileSize, isVisible |-> f.isVisible]

\* an edit request: refused or on an unknown id it changes nothing; accepted,
\* it sets exactly the provided fields of that one record
EditStep ==
    resp'.op = "edit" =>
        LET in == resp'.input
            old == getFileById(files, resp'.target)
            new == getFileById(files', resp'.target) IN
        /\ old = NoFile => (resp'.status \in {401, 404} /\ files' = files)
        /\ resp'.status # 200 => files' = files
        /\ resp'.status = 200 =>
              /\ new.label = IF IsString(in.label) /\ in.label # <<>>
                             THEN in.label ELSE old.label
              /\ new.description = IF in.description # Undefined
                                   THEN in.description ELSE old.description
              /\ new.tags = IF in.tagList # UndefinedList
                            THEN in.tagList ELSE old.tags
              /\ Untouched(new) = Untouched(old)
              /\ files' \ {new} = files \ {old}

\* update-details on an id the store does not hold leaves the store as it is
EditState ==
    \A id \in FileIds \ Ids(files), b \in EdtBodies :
        updateFileDetails(files, id, b[1], b[2], b[3]) = files

\* C20: update-details on an existing file changes a field only if it is
\* provided (label when provided and non-empty, description when provided,
\* tags when provided) and leaves every other attribute of the record and
\* every other record unchanged; on an unknown id it returns none and
\* changes nothing.
C20_UpdateDetailsFrame == []EditState /\ [][EditStep]_vars

C20_Witness ==
    /\ resp.op = "edit" /\ resp.status = 200
    /\ resp.input.label = <<>> /\ resp.input.tagList = <<NewTag>>
    /\ LET f == getFileById(files, resp.target) IN
       /\ f.label = ReportLabel /\ f.tags = <<NewTag>>
       /\ f.description = NewDescription
       /\ f.isVisible = "false"
    /\ \E g \in files : g.id # resp.target /\ g.label = NewLabel


-----------------------------------------------------------------------------
(* Properties of the per-file visibility flag, under Spec *)

VisibilityValues == {"true", "false"}

\* update-visibility applied to the store at hand: twice is once, and the
\* value a file already has changes nothing
VisibilityIdempotent ==
    \A id \in FileIds, v \in VisibilityValues :
        LET once == updateFileVisibility(files, id, v) IN
        /\ updateFileVisibility(once, id, v) = once
        /\ getFileById(files, id).isVisible = v => once = files

\* an accepted visibility request that repeats the one answered just before,
\* or that carries the value the file has, leaves the store as it is
VisibilityRepeat ==
    (resp'.op = "visibility" /\ resp'.status = 200) =>
        /\ resp' = resp => files' = files
        /\ getFileById(files, resp'.target).isVisible = resp'.message
              => files' = files
        /\ getFileById(files', resp'.target).isVisible = resp'.message

\* C21: update-visibility is idempotent: applying update-visibility(id, v)
\* twice in a row leaves the whole store as applying it once does, and
\* applying it with the value the file already has leaves the store unchanged.
C21_VisibilityIdempotent == []VisibilityIdempotent /\ [][VisibilityRepeat]_vars

C21_Witness ==
    /\ resp.op = "visibility" /\ resp.status = 200 /\ resp.message = "false"
    /\ getFileById(files, resp.target).isVisible = "false"
    /\ \E g \in files : g.id # resp.target /\ g.isVisible = "true"

\* C28: every File Record owned by a real team has the visibility flag
\* "true": a non-admin upload stores "true" whatever the request says, and a
\* visibility update by a non-admin requester or on a file not owned by
\* team 0 is refused with 403 and changes no record.
TeamFilesVisible == \A f \in files : f.teamNumber # AdminTeam => f.isVisible = "true"

VisibilityRefused ==
    (resp'.op = "visibility" /\ resp'.by.auth) =>
        LET file == getFileById(files, resp'.target) IN
        (~resp'.by.isAdmin \/ (file # NoFile /\ file.teamNumber # AdminTeam))
            => (resp'.status = 403 /\ files' = files)

C28_TeamFilesAlwaysVisible == []TeamFilesVisible /\ [][VisibilityRefused]_vars

C28_Witness ==
    /\ resp.op = "visibility" /\ resp.status = 403 /\ resp.by = AdminUser
    /\ getFileById(files, resp.target).teamNumber = 1
    /\ getFileById(files, resp.target).isVisible = "true"
    /\ \E g \in files : g.teamNumber = AdminTeam /\ g.isVisible = "false"

-----------------------------------------------------------------------------
(* Properties of the fields an upload stores *)

\* C22 (as claimed): the assignment name of every File Record is one that
\* has an Assignment Visibility Setting; an upload naming any other
\* assignment creates no record.
C22_AssignmentConfigured ==
    \A f \in files : getAssignmentSetting(settings, f.assignment) # NoSetting

NoEmptyTag == \A f \in files : \A i \in 1..Len(f.tags) : f.tags[i] # <<>>

TagsStored ==
    (resp'.op = "upload" /\ resp'.body # {}) =>
        \A id \in resp'.body :
            getFileById(files', id).tags = TagEntries(resp'.input.tags)

\* C25 (as claimed): the tag list stored on an uploaded File Record is the
\* tags string of the request split on commas, each entry trimmed, the
\* entries that are then empty dropped, in the original order; no stored tag
\* is the empty string.
C25_StoredTagsTrimmedNonEmpty == []NoEmptyTag /\ [][TagsStored]_vars

-----------------------------------------------------------------------------
(* Display names: registrations of two teams with one name and its
   lower-case variant, two requests in flight *)

LowerName == <<"a", "c", "e">>

NamRegisterStart ==
    \E s \in Slots, teamNumber \in {1, 2}, teamName \in {TeamName, LowerName} :
        Turn(s) /\ RegisterStart(s, teamNumber, teamName, StrongPassword)

NamRegisterCheckName == \E s \in Slots : Turn(s) /\ RegisterCheckName(s)

NamRegisterFinish == \E s \in Slots : Turn(s) /\ RegisterFinish(s)

NextNames ==
    \/ NamRegisterStart
    \/ NamRegisterCheckName
    \/ NamRegisterFinish

SpecNames == Init /\ [][NextNames]_vars

\* the display name is carried by an account, ignoring case
NameTaken(us, teamName) ==
    \E u \in us : u.teamName # Null /\ ToLower(u.teamName) = ToLower(Trim(teamName))

NamesUnique ==
    \A u, v \in users :
        (u.id # v.id /\ u.teamName # Null /\ v.teamName # Null)
            => ToLower(u.teamName) # ToLower(v.teamName)

TakenNameRefused ==
    (resp'.op = "register" /\ Named(resp'.query.text)
        /\ NameTaken(users, resp'.query.text)) =>
        (resp'.status = 409 /\ users' = users)

\* C23 (as claimed): no two Team Accounts have display names that are equal
\* ignoring case, also after concurrent registrations of two team numbers
\* with the same or a case-variant name; a registration whose display name is
\* taken answers 409 and creates or changes no account.
C23_DisplayNamesUnique == []NamesUnique /\ [][TakenNameRefused]_vars

-----------------------------------------------------------------------------
(* Sessions and password change: admin and team logins with right and wrong
   secrets and team numbers in and out of range, password changes, and
   requests made on the sessions that exist; handlers run one at a time *)

PwdAdminLogin ==
    Quiescent /\ \E password \in {AdminPassword, WrongPassword} : AdminLogin(password)

PwdLoginStart ==
    Quiescent /\ \E teamNumber \in {AdminTeam, 1, MaxTeamNumber + 1},
                    password \in {TeamPassword(1), StrongPassword, AdminPassword} :
                    LoginStart(1, teamNumber, password)

PwdLoginFinish == LoginFinish(1)

PwdChangePassword ==
    Quiescent /\ \E r \in Requesters,
                    currentPassword \in {TeamPassword(1), StrongPassword, WrongPassword},
                    newPassword \in {StrongPassword, OtherPassword, WeakPassword} :
                    ChangePassword(r, currentPassword, newPassword)

PwdListFiles == Quiescent /\ \E r \in Requesters : ListFiles(r, AllQuery)

PwdLogout == Quiescent /\ \E r \in sessions : Logout(r)

NextPassword ==
    \/ PwdAdminLogin
    \/ PwdLoginStart
    \/ PwdLoginFinish
    \/ PwdChangePassword
    \/ PwdListFiles
    \/ PwdLogout

SpecPassword == Init /\ [][NextPassword]_vars

\* C24 (as claimed): after a team has changed its password, the sessions of
\* that team established before the change are invalid: no session of the
\* team is left, so a request on one is treated as unauthenticated.
C24_PasswordChangeEndsSessions ==
    [][(resp'.op = "password" /\ resp'.status = 200)
          => TeamUser(resp'.target) \notin sessions']_vars

-----------------------------------------------------------------------------
(* File queries on both backends: admin uploads, then lists by extension and
   by search text; handlers run one at a time *)

QryQueries == {TypeQuery(<<"p", "d", "f">>), TypeQuery(<<".", "P", "D", "F">>),
               SearchQuery(<<"a">>), SearchQuery(<<"q">>), SearchQuery(<<"Q">>)}

QryAdminLogin == Quiescent /\ AdminLogin(AdminPassword)

QryUpload ==
    Quiescent /\ \E r \in sessions, tags \in {Undefined, TagsAB},
                    names \in {<<PdfName>>, <<PngName>>} :
                    Upload(r, NoTeamField, ReportLabel, "A1", tags, Undefined,
                           Absent, names)

QryListFiles == Quiescent /\ \E r \in sessions, q \in QryQueries : ListFiles(r, q)

NextQuery ==
    \/ QryAdminLogin
    \/ QryUpload
    \/ QryListFiles

SpecQuery == Init /\ [][NextQuery]_vars

\* the files whose extension contains q, ignoring case
ByExtension(fs, q) == {f \in fs : Includes(ToLower(f.fileType), ToLower(q))}

\* the files where q, ignoring case, is part of the label, the original
\* filename, the description or a tag
BySearch(fs, q) ==
    {f \in fs :
        \/ Includes(ToLower(f.label), ToLower(q))
        \/ Includes(ToLower(f.originalName), ToLower(q))
        \/ (IsString(f.description) /\ Includes(ToLower(f.description), ToLower(q)))
        \/ \E i \in 1..Len(f.tags) : Includes(ToLower(f.tags[i]), ToLower(q))}

\* C26 (as claimed): on either backend, after the same file creations,
\* list-by-extension(q) returns exactly the files whose extension contains q
\* ignoring case, and search(q) exactly the files where q, ignoring case, is
\* a substring of the label, the original filename, the description or a tag.
C26_BackendsAgreeOnQueries ==
    (resp.op = "list" /\ resp.status = 200 /\ resp.by.isAdmin) =>
        /\ resp.query.kind = "type" =>
              resp.body = Ids(ByExtension(files, resp.query.text))
        /\ resp.query.kind = "search" =>
              resp.body = Ids(BySearch(files, resp.query.text))

\* every session user is admin exactly when its team number is 0, and a
\* non-admin session user has a team number of a student team
SessionsWellFormed ==
    \A r \in sessions :
        /\ r.auth
        /\ r.isAdmin <=> r.teamNumber = AdminTeam
        /\ ~r.isAdmin => r.teamNumber \in MinTeamNumber..MaxTeamNumber

\* a new admin session comes from an admin login with the admin password; a
\* team login yields a session of the team it names, never the admin's
SessionsGranted ==
    /\ AdminUser \in sessions' \ sessions =>
          (resp'.op = "admin-login" /\ resp'.secret = AdminPassword)
    /\ (resp'.op = "login" /\ resp'.status = 200) =>
          /\ resp'.by = TeamUser(resp'.target)
          /\ resp'.target \in MinTeamNumber..MaxTeamNumber
          /\ sessions' = sessions \cup {resp'.by}
    /\ (resp'.op = "admin-login" /\ resp'.secret # AdminPassword) =>
          (resp'.status = 401 /\ sessions' = sessions)

\* C27: every authenticated session's requester is admin if and only if its
\* team number is 0, and every non-admin requester has a team number in
\* 1..9: team login never yields an admin requester or team number 0, and
\* only admin login with the correct admin password yields the admin
\* requester.
C27_AdminIffTeamZero == []SessionsWellFormed /\ [][SessionsGranted]_vars

C27_Witness ==
    /\ AdminUser \in sessions /\ TeamUser(1) \in sessions
    /\ resp.op = "admin-login" /\ resp.status = 401
    /\ resp.secret = WrongPassword

-----------------------------------------------------------------------------
(* Reset with blobs going missing: uploads, loss of blobs from the content
   directory, full resets; handlers run one at a time *)

RstAdminLogin == Quiescent /\ AdminLogin(AdminPassword)

RstLoginStart == Quiescent /\ LoginStart(1, 1, TeamPassword(1))

RstLoginFinish == LoginFinish(1)

RstUpload ==
    Quiescent /\ \E r \in sessions :
                    Upload(r, NoTeamField, ReportLabel, "A1", Undefined, Undefined,
                           Absent, <<PdfName>>)

RstBlobLost == Quiescent /\ \E name \in FileIds : BlobLost(name)

RstResetServer ==
    Quiescent /\ \E r \in sessions, adminPassword \in Secrets :
                    ResetServer(r, adminPassword, ConfirmText)

NextReset ==
    \/ RstAdminLogin
    \/ RstLoginStart
    \/ RstLoginFinish
    \/ RstUpload
    \/ RstBlobLost
    \/ RstResetServer

SpecReset == Init /\ [][NextReset]_vars

\* C29 (as claimed): the filesDeleted count of a successful reset is the
\* number of File Records the reset removed from the store, also when blobs
\* of some of those records are already missing.
C29_ResetCountsRemovedRecords ==
    [][(resp'.op = "reset" /\ resp'.status = 200)
          => resp'.count = Cardinality(files \ files')]_vars

-----------------------------------------------------------------------------
(* Blobs and records after an upload, under SpecUpload *)

\* C30 (as claimed): when an upload request has completed, with success or
\* with a validation error, every blob it wrote and left in the content
\* directory is the stored file of exactly one File Record.
C30_UploadLeavesNoOrphanBlob ==
    [][(resp'.op = "upload" /\ resp'.by.auth) =>
          \A name \in blobs' \ blobs :
              Cardinality({f \in files' : f.fileName = name}) = 1]_vars

=============================================================================
